---- MODULE Spec2Model ----
(***************************************************************************)
(* mapgen: the annotation resolution pipeline.                             *)
(*                                                                         *)
(*   Preprocessor.Process  (internal/preprocessor)  comments -> directives *)
(*   Registry.Process      (internal/processor)     directive -> definition*)
(*   main                  (cmd/mapgen)             grouping, the mapper / *)
(*                                                  mapping / validator    *)
(*                                                  loops, generation      *)
(*                                                                         *)
(* Strings.  Identifiers, attribute keys and attribute values are TLA+     *)
(* strings.  A type string (the result of exprToString) is a sequence of   *)
(* tokens ("*", "[]", "map[", "]", "." and identifiers), so that           *)
(* strings.TrimPrefix and strings.Split act on it as they do on the text;  *)
(* the empty string is <<>>.  A Go map[string]string is a set of           *)
(* <<key, value>> pairs with distinct keys.                                *)
(***************************************************************************)
EXTENDS Integers, Sequences, FiniteSets, TLC

VARIABLES
    file,                 \* the *ast.File given to Preprocessor.Process
    pc,                   \* position of main: preprocess, group, mappers, mappings, validators, generate, done
    ci,                   \* Preprocessor.Process: index of the next comment
    directives,           \* the directives returned by Preprocessor.Process
    mapperDirectives,     \* main: directives of type mapper
    mappingDirectives,    \* main: directives of type mapping
    validatorDirectives,  \* main: directives of type validator
    idx,                  \* main: index of the next element of the running loop
    mapperDefinitions,    \* main: the mapper definitions built so far
    errors,               \* main: the "Error processing ..." lines printed
    generated             \* the definitions handed to Generator.Generate, with the rules it resolves

vars == <<file, pc, ci, directives, mapperDirectives, mappingDirectives,
          validatorDirectives, idx, mapperDefinitions, errors, generated>>

-----------------------------------------------------------------------------
(* Bounds of the model *)

MaxMappers == 2

MaxMappings == 2

-----------------------------------------------------------------------------
(* Strings and maps *)

\* ToLower leaving every letter as it is
ToLowerKeepCase(s) == s

\* strings.ToLower on the identifiers the model uses
ToLower(s) ==
    CASE s = "UserMapper" -> "usermapper"
      [] s = "AddressDtoMapper" -> "addressdtomapper"
      [] s = "DefaultMapper" -> "defaultmapper"
      [] s = "User" -> "user"
      [] s = "userMapper" -> "usermapper"
      [] s = "addressDtoMapper" -> "addressdtomapper"
      [] s = "defaultMapper" -> "defaultmapper"
      [] s = "ToDTO" -> "todto"
      [] s = "FromDTO" -> "fromdto"
      [] s = "ToTarget" -> "totarget"
      [] s = "ToEntity" -> "toentity"
      [] s = "ID" -> "id"
      [] s = "Name" -> "name"
      [] s = "UserName" -> "username"
      [] s = "Email" -> "email"
      [] s = "CreatedAt" -> "createdat"
      [] s = "PasswordHash" -> "passwordhash"
      [] s = "FirstName" -> "firstname"
      [] s = "LastName" -> "lastname"
      [] s = "LegacyMapper" -> "legacymapper"
      [] s = "legacyMapper" -> "legacymapper"
      [] s = "FromLegacy" -> "fromlegacy"
      [] s = "NAME" -> "name"
      [] s = "Phone" -> "phone"
      [] s = "ToDTOs" -> "todtos"
      [] s = "Reset" -> "reset"
      [] s = "BatchMapper" -> "batchmapper"
      [] s = "batchMapper" -> "batchmapper"
      [] s = "Marker" -> "marker"
      [] s = "markerMapper" -> "markermapper"
      [] s = "orderMapper" -> "ordermapper"
      [] s = "DEFAULTMAPPER" -> "defaultmapper"
      [] OTHER -> s

\* strings.EqualFold
EqualFold(a, b) == ToLower(a) = ToLower(b)

\* _, ok := m[key]
Has(md, key) == \E p \in md : p[1] = key

\* m[key], the zero value "" when the key is absent
Get(md, key) == IF Has(md, key) THEN (CHOOSE p \in md : p[1] = key)[2] ELSE ""

\* strings.TrimPrefix(s, t) for a one-token prefix t
TrimPrefix(s, t) == IF Len(s) > 0 /\ s[1] = t THEN Tail(s) ELSE s

\* strings.Split(s, ".")[0] and whether the split has more than one part
HasDot(s) == \E i \in 1..Len(s) : s[i] = "."

FirstPart(s) ==
    IF HasDot(s)
    THEN SubSeq(s, 1, (CHOOSE i \in 1..Len(s) : s[i] = "." /\ \A j \in 1..(i - 1) : s[j] # ".") - 1)
    ELSE s

-----------------------------------------------------------------------------
(* AST nodes *)

Nil == [k |-> "nil"]

Ident(name) == [k |-> "Ident", Name |-> name]

StarExpr(x) == [k |-> "StarExpr", X |-> x]

SelectorExpr(x, sel) == [k |-> "SelectorExpr", X |-> x, Sel |-> sel]

ArrayType(elt) == [k |-> "ArrayType", Elt |-> elt]

MapType(key, value) == [k |-> "MapType", Key |-> key, Value |-> value]

FuncType(params, results) == [k |-> "FuncType", Params |-> params, Results |-> results]

\* a method of an interface: *ast.Field with Names and a FuncType
Field(names, type, pos) == [k |-> "Field", Names |-> names, Type |-> type, Pos |-> pos]

InterfaceType(methods) == [k |-> "InterfaceType", Methods |-> methods]

StructType(fields) == [k |-> "StructType", Fields |-> fields]

TypeSpec(name, type, pos) == [k |-> "TypeSpec", Name |-> name, Type |-> type, Pos |-> pos]

GenDecl(tok, specs, pos) == [k |-> "GenDecl", Tok |-> tok, Specs |-> specs, Pos |-> pos]

FuncDecl(name, pos) == [k |-> "FuncDecl", Name |-> name, Pos |-> pos]

Directive(type, metadata, node) == [Type |-> type, Metadata |-> metadata, Node |-> node]

-----------------------------------------------------------------------------
(* internal/processor *)

RECURSIVE exprToString(_)
exprToString(expr) ==
    CASE expr.k = "Ident" -> <<expr.Name>>
      [] expr.k = "SelectorExpr" -> exprToString(expr.X) \o <<".", expr.Sel>>
      [] expr.k = "StarExpr" -> <<"*">> \o exprToString(expr.X)
      [] expr.k = "ArrayType" -> <<"[]">> \o exprToString(expr.Elt)
      [] expr.k = "MapType" ->
            <<"map[">> \o exprToString(expr.Key) \o <<"]">> \o exprToString(expr.Value)
      [] OTHER -> <<"*", "ast", ".", expr.k>>

extractPackage(typeStr) ==
    LET s == TrimPrefix(typeStr, "*")
    IN  IF HasDot(s) THEN FirstPart(s) ELSE <<>>

\* the found-loop and append of processor.go 143-155 and 157-169
AddImport(imports, pkg) ==
    IF pkg = <<>> \/ (\E i \in 1..Len(imports) : imports[i] = pkg)
    THEN imports
    ELSE Append(imports, pkg)

\* MapperMethod with the parameter type taken as the target and the result type as the source
MapperMethodSwapped(name, sourceType, targetType) ==
    [Name |-> name, SourceType |-> targetType, TargetType |-> sourceType, Mappings |-> <<>>]

MapperMethod(name, sourceType, targetType) ==
    [Name |-> name, SourceType |-> sourceType, TargetType |-> targetType, Mappings |-> <<>>]

\* AddInterfaceMethod with the types taken from the last parameter and the last result
AddInterfaceMethodLast(mapperDef, method) ==
    IF method.Type.k # "FuncType"
    THEN mapperDef
    ELSE LET funcType == method.Type
             methodName == IF Len(method.Names) > 0 THEN method.Names[1] ELSE ""
             sourceType == IF Len(funcType.Params) > 0
                           THEN exprToString(funcType.Params[Len(funcType.Params)]) ELSE <<>>
             targetType == IF Len(funcType.Results) > 0
                           THEN exprToString(funcType.Results[Len(funcType.Results)]) ELSE <<>>
         IN  [mapperDef EXCEPT
                 !.Methods = Append(@, MapperMethod(methodName, sourceType, targetType)),
                 !.Imports = AddImport(AddImport(@, extractPackage(sourceType)),
                                       extractPackage(targetType))]

\* one iteration of the loop over interfaceType.Methods.List
AddInterfaceMethod(mapperDef, method) ==
    IF method.Type.k # "FuncType"
    THEN mapperDef
    ELSE LET funcType == method.Type
             methodName == IF Len(method.Names) > 0 THEN method.Names[1] ELSE ""
             sourceType == IF Len(funcType.Params) > 0
                           THEN exprToString(funcType.Params[1]) ELSE <<>>
             targetType == IF Len(funcType.Results) > 0
                           THEN exprToString(funcType.Results[1]) ELSE <<>>
         IN  [mapperDef EXCEPT
                 !.Methods = Append(@, MapperMethod(methodName, sourceType, targetType)),
                 !.Imports = AddImport(AddImport(@, extractPackage(sourceType)),
                                       extractPackage(targetType))]

RECURSIVE AddInterfaceMethods(_, _, _)
AddInterfaceMethods(mapperDef, methods, i) ==
    IF i > Len(methods)
    THEN mapperDef
    ELSE AddInterfaceMethods(AddInterfaceMethod(mapperDef, methods[i]), methods, i + 1)

\* the else branch: standard methods of a non-interface type
AddStandardMethods(mapperDef, typeName) ==
    [mapperDef EXCEPT
        !.Methods = @ \o << MapperMethod("ToDTO", <<"*", typeName>>,
                                         <<"*", "dto", ".", typeName \o "DTO">>),
                            MapperMethod("ToEntity", <<"*", "dto", ".", typeName \o "DTO">>,
                                         <<"*", typeName>>) >>,
        !.Imports = Append(@, <<"dto">>)]

Result(err, kind, val) == [err |-> err, kind |-> kind, val |-> val]

MapperProcessorProcess(directive) ==
    IF directive.Node.k # "TypeSpec"
    THEN Result(TRUE, "nil", Nil)
    ELSE LET typeSpec == directive.Node
             implName == IF Get(directive.Metadata, "impl") = ""
                         THEN ToLower(typeSpec.Name) \o "_mapper"
                         ELSE Get(directive.Metadata, "impl")
             packageName == IF Has(directive.Metadata, "package")
                            THEN Get(directive.Metadata, "package")
                            ELSE "mapper"
             mapperDef == [ImplName |-> implName,
                           Package |-> packageName,
                           TargetFile |-> Get(directive.Metadata, "target"),
                           Methods |-> <<>>,
                           Imports |-> <<>>]
         IN  Result(FALSE, "MapperDefinition",
                    IF typeSpec.Type.k = "InterfaceType"
                    THEN AddInterfaceMethods(mapperDef, typeSpec.Type.Methods, 1)
                    ELSE AddStandardMethods(mapperDef, typeSpec.Name))

MappingProcessorProcess(directive) ==
    Result(FALSE, "MappingDefinition",
           [From |-> Get(directive.Metadata, "from"),
            To |-> Get(directive.Metadata, "to"),
            Using |-> Get(directive.Metadata, "using"),
            Ignore |-> Has(directive.Metadata, "ignore"),
            MapperName |-> "",
            MethodName |-> ""])

RECURSIVE StructFieldRules(_, _)
StructFieldRules(fields, i) ==
    IF i > Len(fields)
    THEN {}
    ELSE (IF Len(fields[i].Names) > 0 THEN {<<fields[i].Names[1], "required">>} ELSE {})
         \cup StructFieldRules(fields, i + 1)

ValidatorProcessorProcess(directive) ==
    IF directive.Node.k # "TypeSpec"
    THEN Result(TRUE, "nil", Nil)
    ELSE LET typeSpec == directive.Node
             implName == IF Get(directive.Metadata, "impl") = ""
                         THEN ToLower(typeSpec.Name) \o "_validator"
                         ELSE Get(directive.Metadata, "impl")
         IN  Result(FALSE, "ValidatorDefinition",
                    [ImplName |-> implName,
                     Package |-> "validator",
                     Fields |-> IF typeSpec.Type.k = "StructType"
                                THEN StructFieldRules(typeSpec.Type.Fields, 1)
                                ELSE {}])

\* the processors NewRegistry registers
RegisteredTypes == {"mapper", "validator", "mapping"}

RegistryProcess(directive) ==
    IF directive.Type \notin RegisteredTypes
    THEN Result(TRUE, "nil", Nil)
    ELSE CASE directive.Type = "mapper" -> MapperProcessorProcess(directive)
           [] directive.Type = "validator" -> ValidatorProcessorProcess(directive)
           [] directive.Type = "mapping" -> MappingProcessorProcess(directive)

-----------------------------------------------------------------------------
(* internal/preprocessor *)

(* A comment is [Pos, Markers]: Markers are the occurrences of +mapgen:<kind>  *)
(* in its text, each [Kind, Attributes] as written.  file.Comments is the      *)
(* sequence of the comments of all comment groups, file.Decls the top-level    *)
(* declarations, both in source order.                                         *)

\* one directive per match of the regular expression; Type and Metadata are fixed
\* findDirectivesInComment with the first match only (FindStringSubmatch)
findDirectivesInCommentFirst(comment) ==
    [i \in 1..(IF Len(comment.Markers) > 0 THEN 1 ELSE 0) |->
        Directive("mapper", {<<"impl", "user_mapper">>}, Nil)]

findDirectivesInComment(comment) ==
    [i \in 1..Len(comment.Markers) |->
        Directive("mapper", {<<"impl", "user_mapper">>}, Nil)]

\* the node a declaration stands for: its first type specification, else itself
DeclNode(decl) ==
    IF decl.k = "GenDecl" /\ (\E i \in 1..Len(decl.Specs) : decl.Specs[i].k = "TypeSpec")
    THEN decl.Specs[CHOOSE i \in 1..Len(decl.Specs) :
                        /\ decl.Specs[i].k = "TypeSpec"
                        /\ \A h \in 1..(i - 1) : decl.Specs[h].k # "TypeSpec"]
    ELSE decl

\* findAssociatedNode without the position test: the first declaration of the file
findAssociatedNodeFirst(f, comment) ==
    IF Len(f.Decls) > 0 THEN DeclNode(f.Decls[1]) ELSE Nil

findAssociatedNode(f, comment) ==
    IF \E i \in 1..Len(f.Decls) : f.Decls[i].Pos > comment.Pos
    THEN DeclNode(f.Decls[CHOOSE i \in 1..Len(f.Decls) :
                            /\ f.Decls[i].Pos > comment.Pos
                            /\ \A h \in 1..(i - 1) : ~(f.Decls[h].Pos > comment.Pos)])
    ELSE Nil

\* Preprocessor.Process: one iteration of the loop over the comments
PreprocessComment ==
    /\ pc = "preprocess"
    /\ ci <= Len(file.Comments)
    /\ LET comment == file.Comments[ci]
           foundDirectives == findDirectivesInComment(comment)
           node == findAssociatedNode(file, comment)
       IN  directives' =
               IF node # Nil
               THEN directives \o [i \in 1..Len(foundDirectives) |->
                                      [foundDirectives[i] EXCEPT !.Node = node]]
               ELSE directives
    /\ ci' = ci + 1
    /\ pc' = IF ci < Len(file.Comments) THEN "preprocess" ELSE "group"
    /\ UNCHANGED <<file, mapperDirectives, mappingDirectives, validatorDirectives,
                   idx, mapperDefinitions, errors, generated>>

-----------------------------------------------------------------------------
(* cmd/mapgen: main *)

\* FieldMappingRule with From and To exchanged
FieldMappingRuleSwapped(mappingDef) ==
    [From |-> mappingDef.To, To |-> mappingDef.From,
     Using |-> mappingDef.Using, Ignore |-> mappingDef.Ignore]

FieldMappingRule(mappingDef) ==
    [From |-> mappingDef.From, To |-> mappingDef.To,
     Using |-> mappingDef.Using, Ignore |-> mappingDef.Ignore]

\* index of the first method whose name matches, 0 when there is none
FindMethod(methods, methodName) ==
    IF \E j \in 1..Len(methods) : EqualFold(methods[j].Name, methodName)
    THEN CHOOSE j \in 1..Len(methods) :
            /\ EqualFold(methods[j].Name, methodName)
            /\ \A h \in 1..(j - 1) : ~EqualFold(methods[h].Name, methodName)
    ELSE 0

\* the first loop: the mapper is looked up by name; <<0, 0>> when mapperFound stays false
RECURSIVE FindByMapperName(_, _, _)
FindByMapperName(defs, mappingDef, i) ==
    IF i > Len(defs)
    THEN <<0, 0>>
    ELSE IF ~EqualFold(defs[i].ImplName, mappingDef.MapperName)
    THEN FindByMapperName(defs, mappingDef, i + 1)
    ELSE LET j == IF mappingDef.MethodName # ""
                  THEN FindMethod(defs[i].Methods, mappingDef.MethodName)
                  ELSE 0
         IN  IF j # 0 THEN <<i, j>>
             ELSE IF Len(defs[i].Methods) > 0 THEN <<i, 1>>
             ELSE FindByMapperName(defs, mappingDef, i + 1)

\* the second loop: the method is looked up by name in every mapper
RECURSIVE FindByMethodName(_, _, _)
FindByMethodName(defs, mappingDef, i) ==
    IF i > Len(defs)
    THEN <<0, 0>>
    ELSE LET j == FindMethod(defs[i].Methods, mappingDef.MethodName)
         IN  IF j # 0 THEN <<i, j>> ELSE FindByMethodName(defs, mappingDef, i + 1)

\* BindTarget with the fallback on the first method of the last mapper
BindTargetLast(defs, mappingDef) ==
    LET byMapper == IF mappingDef.MapperName # ""
                    THEN FindByMapperName(defs, mappingDef, 1)
                    ELSE <<0, 0>>
        byMethod == IF byMapper = <<0, 0>> /\ mappingDef.MethodName # ""
                    THEN FindByMethodName(defs, mappingDef, 1)
                    ELSE <<0, 0>>
    IN  IF byMapper # <<0, 0>> THEN byMapper
        ELSE IF byMethod # <<0, 0>> THEN byMethod
        ELSE IF Len(defs) > 0 /\ Len(defs[Len(defs)].Methods) > 0 THEN <<Len(defs), 1>>
        ELSE <<0, 0>>

\* the <<mapper index, method index>> the mapping is appended to, <<0, 0>> for none
BindTarget(defs, mappingDef) ==
    LET byMapper == IF mappingDef.MapperName # ""
                    THEN FindByMapperName(defs, mappingDef, 1)
                    ELSE <<0, 0>>
        byMethod == IF byMapper = <<0, 0>> /\ mappingDef.MethodName # ""
                    THEN FindByMethodName(defs, mappingDef, 1)
                    ELSE <<0, 0>>
    IN  IF byMapper # <<0, 0>> THEN byMapper
        ELSE IF byMethod # <<0, 0>> THEN byMethod
        ELSE IF Len(defs) > 0 /\ Len(defs[1].Methods) > 0 THEN <<1, 1>>
        ELSE <<0, 0>>

\* AppendMapping with the rule put in front of the method's rules
AppendMappingFront(defs, target, fieldMapping) ==
    IF target = <<0, 0>>
    THEN defs
    ELSE [defs EXCEPT ![target[1]].Methods[target[2]].Mappings = <<fieldMapping>> \o @]

\* AppendMapping with the method's rules replaced by the rule
AppendMappingOnly(defs, target, fieldMapping) ==
    IF target = <<0, 0>>
    THEN defs
    ELSE [defs EXCEPT ![target[1]].Methods[target[2]].Mappings = <<fieldMapping>>]

\* mapperDefinitions[i].Methods[j].Mappings = append(..., fieldMapping)
AppendMapping(defs, target, fieldMapping) ==
    IF target = <<0, 0>>
    THEN defs
    ELSE [defs EXCEPT ![target[1]].Methods[target[2]].Mappings = Append(@, fieldMapping)]

OfType(ds, type) == SelectSeq(ds, LAMBDA d : d.Type = type)

\* the loop main runs next: the first one, from the n-th on, that has an element
LoopFrom(n, mappers, mappings, validators, defs) ==
    IF n <= 1 /\ Len(mappers) > 0 THEN "mappers"
    ELSE IF n <= 2 /\ Len(mappings) > 0 THEN "mappings"
    ELSE IF n <= 3 /\ Len(validators) > 0 THEN "validators"
    ELSE IF Len(defs) > 0 THEN "generate"
    ELSE "done"

\* main.go 83-97: the directives are grouped by type
Group ==
    /\ pc = "group"
    /\ mapperDirectives' = OfType(directives, "mapper")
    /\ mappingDirectives' = OfType(directives, "mapping")
    /\ validatorDirectives' = OfType(directives, "validator")
    /\ idx' = 1
    /\ pc' = LoopFrom(1, mapperDirectives', mappingDirectives', validatorDirectives', <<>>)
    /\ UNCHANGED <<file, ci, directives, mapperDefinitions, errors, generated>>

\* one iteration of the loop over mapperDirectives
ProcessMapperDirective ==
    /\ pc = "mappers"
    /\ idx <= Len(mapperDirectives)
    /\ LET result == RegistryProcess(mapperDirectives[idx])
       IN  /\ IF result.err
              THEN /\ errors' = Append(errors, [loop |-> "mapper", i |-> idx])
                   /\ UNCHANGED mapperDefinitions
              ELSE /\ mapperDefinitions' = Append(mapperDefinitions, result.val)
                   /\ UNCHANGED errors
    /\ IF idx < Len(mapperDirectives)
       THEN idx' = idx + 1 /\ UNCHANGED pc
       ELSE /\ idx' = 1
            /\ pc' = LoopFrom(2, mapperDirectives, mappingDirectives, validatorDirectives,
                              mapperDefinitions')
    /\ UNCHANGED <<file, ci, directives, mapperDirectives, mappingDirectives,
                   validatorDirectives, generated>>

\* ProcessMappingDirective with the rule appended to a method chosen freely
ProcessMappingDirectiveAny ==
    /\ pc = "mappings"
    /\ idx <= Len(mappingDirectives)
    /\ LET result == RegistryProcess(mappingDirectives[idx])
       IN  \E m \in 0..Len(mapperDefinitions) :
              mapperDefinitions' =
                  AppendMapping(mapperDefinitions,
                                IF m > 0 /\ Len(mapperDefinitions[m].Methods) > 0
                                THEN <<m, 1>> ELSE <<0, 0>>,
                                FieldMappingRule(result.val))
    /\ IF idx < Len(mappingDirectives)
       THEN idx' = idx + 1 /\ UNCHANGED pc
       ELSE /\ idx' = 1
            /\ pc' = LoopFrom(3, mapperDirectives, mappingDirectives, validatorDirectives,
                              mapperDefinitions')
    /\ UNCHANGED <<file, ci, directives, mapperDirectives, mappingDirectives,
                   validatorDirectives, errors, generated>>

\* one iteration of the loop over mappingDirectives
ProcessMappingDirective ==
    /\ pc = "mappings"
    /\ idx <= Len(mappingDirectives)
    /\ LET result == RegistryProcess(mappingDirectives[idx])
       IN  /\ IF result.err
              THEN /\ errors' = Append(errors, [loop |-> "mapping", i |-> idx])
                   /\ UNCHANGED mapperDefinitions
              ELSE /\ mapperDefinitions' =
                          AppendMapping(mapperDefinitions,
                                        BindTarget(mapperDefinitions, result.val),
                                        FieldMappingRule(result.val))
                   /\ UNCHANGED errors
    /\ IF idx < Len(mappingDirectives)
       THEN idx' = idx + 1 /\ UNCHANGED pc
       ELSE /\ idx' = 1
            /\ pc' = LoopFrom(3, mapperDirectives, mappingDirectives, validatorDirectives,
                              mapperDefinitions')
    /\ UNCHANGED <<file, ci, directives, mapperDirectives, mappingDirectives,
                   validatorDirectives, generated>>

\* one iteration of the loop over validatorDirectives: the definition is only printed
ProcessValidatorDirective ==
    /\ pc = "validators"
    /\ idx <= Len(validatorDirectives)
    /\ LET result == RegistryProcess(validatorDirectives[idx])
       IN  errors' = IF result.err
                     THEN Append(errors, [loop |-> "validator", i |-> idx])
                     ELSE errors
    /\ IF idx < Len(validatorDirectives)
       THEN idx' = idx + 1 /\ UNCHANGED pc
       ELSE /\ idx' = 1
            /\ pc' = LoopFrom(4, mapperDirectives, mappingDirectives, validatorDirectives,
                              mapperDefinitions)
    /\ UNCHANGED <<file, ci, directives, mapperDirectives, mappingDirectives,
                   validatorDirectives, mapperDefinitions, generated>>

-----------------------------------------------------------------------------
(* internal/generator: Generator.Generate.  main calls it for every mapper    *)
(* definition; the rules it resolves for a method without mappings are the    *)
(* convention fallback of the specification, section 4.4 step 4.              *)

Known(fields) == [known |-> TRUE, fields |-> fields]

\* the field lists the type information supplies for a type string
TypeFields(typeStr) ==
    LET t == TrimPrefix(typeStr, "*")
    IN  CASE t = <<"User">> ->
                Known(<<"ID", "UserName", "FirstName", "LastName", "Email", "CreatedAt">>)
          [] t = <<"UserDTO">> ->
                Known(<<"ID", "Name", "FirstName", "LastName", "Email", "CreatedAt">>)
          [] t = <<"SimpleSource">> -> Known(<<"ID", "Name", "Email", "CreatedAt">>)
          [] t = <<"SimpleTarget">> -> Known(<<"ID", "Name", "Email", "CreatedAt">>)
          [] t = <<"LegacySource">> -> Known(<<"id", "NAME", "Phone">>)
          [] OTHER -> [known |-> FALSE, fields |-> <<>>]

\* whether a target field name matches a source field name
FieldNameMatch(sourceField, targetField) == EqualFold(sourceField, targetField)

\* the first source field whose name matches the target field, "" for none
MatchingSource(sourceFields, targetField) ==
    IF \E i \in 1..Len(sourceFields) : FieldNameMatch(sourceFields[i], targetField)
    THEN sourceFields[CHOOSE i \in 1..Len(sourceFields) :
                        /\ FieldNameMatch(sourceFields[i], targetField)
                        /\ \A h \in 1..(i - 1) : ~FieldNameMatch(sourceFields[h], targetField)]
    ELSE ""

\* one rule per target field with a matching source field, in target field order
RECURSIVE ConventionRules(_, _, _)
ConventionRules(sourceFields, targetFields, i) ==
    IF i > Len(targetFields)
    THEN <<>>
    ELSE LET from == MatchingSource(sourceFields, targetFields[i])
         IN  (IF from = ""
              THEN <<>>
              ELSE << [From |-> from, To |-> targetFields[i], Using |-> "", Ignore |-> FALSE] >>)
             \o ConventionRules(sourceFields, targetFields, i + 1)

\* the rules the generator emits for a method
ResolveRules(method) ==
    LET src == TypeFields(method.SourceType)
        tgt == TypeFields(method.TargetType)
    IN  IF Len(method.Mappings) = 0 /\ src.known /\ tgt.known
        THEN ConventionRules(src.fields, tgt.fields, 1)
        ELSE method.Mappings

Generate(mapperDef) ==
    [def |-> mapperDef,
     rules |-> [j \in 1..Len(mapperDef.Methods) |-> ResolveRules(mapperDef.Methods[j])]]

\* one iteration of the loop over mapperDefinitions: g.Generate(mapperDef)
GenerateMapper ==
    /\ pc = "generate"
    /\ idx <= Len(mapperDefinitions)
    /\ generated' = Append(generated, Generate(mapperDefinitions[idx]))
    /\ IF idx < Len(mapperDefinitions)
       THEN idx' = idx + 1 /\ UNCHANGED pc
       ELSE idx' = 1 /\ pc' = "done"
    /\ UNCHANGED <<file, ci, directives, mapperDirectives, mappingDirectives,
                   validatorDirectives, mapperDefinitions, errors>>

-----------------------------------------------------------------------------
(* Inputs *)

BoundedSeq(S, n) == UNION {[1..m -> S] : m \in 0..n}

Method(name, param, result) == Field(<<name>>, FuncType(<<param>>, <<result>>), 0)

Ptr(name) == StarExpr(Ident(name))

\* test/testdata/sample.go: UserMapper
UserMapperSpec ==
    TypeSpec("UserMapper", InterfaceType(<< Method("ToDTO", Ptr("User"), Ptr("UserDTO")) >>), 0)

\* example/mapper/user_mapper.go: UserMapper, with two methods
UserMapper2Spec ==
    TypeSpec("UserMapper",
             InterfaceType(<< Method("ToDTO", Ptr("User"), Ptr("UserDTO")),
                              Method("FromDTO", Ptr("UserDTO"), Ptr("User")) >>), 0)

\* test/testdata/default_mapper.go: DefaultMapper
DefaultMapperSpec ==
    TypeSpec("DefaultMapper",
             InterfaceType(<< Method("ToTarget", Ptr("SimpleSource"), Ptr("SimpleTarget")) >>), 0)

\* a contract whose source and target field names differ in case and in extent
LegacyMapperSpec ==
    TypeSpec("LegacyMapper",
             InterfaceType(<< Method("FromLegacy", Ptr("LegacySource"), Ptr("SimpleTarget")) >>), 0)

\* example/mapper/user_mapper.go: the declaration of User, which follows the contract
UserStructSpec ==
    TypeSpec("User", StructType(<< Field(<<"Name">>, Ident("string"), 0),
                                   Field(<<"PasswordHash">>, Ident("string"), 0) >>), 0)

\* test/testdata/sample.go: AddressDtoMapper
AddressDtoMapperSpec ==
    TypeSpec("AddressDtoMapper",
             InterfaceType(<< Method("ToDTO", StarExpr(SelectorExpr(Ident("fancy"), "Address")),
                                     Ptr("AddressDto")) >>), 0)

\* a contract with an embedded interface, a method without parameters and results,
\* and a method on a slice and a map of qualified types:
\*   type BatchMapper interface {
\*       Stringer
\*       Reset()
\*       ToDTOs([]dto.User, bool) (map[string]dto.UserDTO, error)
\*   }
BatchMapperSpec ==
    TypeSpec("BatchMapper",
             InterfaceType(<< Field(<<>>, Ident("Stringer"), 0),
                              Field(<<"Reset">>, FuncType(<<>>, <<>>), 0),
                              Field(<<"ToDTOs">>,
                                    FuncType(<< ArrayType(SelectorExpr(Ident("dto"), "User")),
                                                Ident("bool") >>,
                                             << MapType(Ident("string"),
                                                        SelectorExpr(Ident("dto"), "UserDTO")),
                                                Ident("error") >>), 0) >>), 0)

\* a contract without methods: type Marker interface{}
MarkerSpec == TypeSpec("Marker", InterfaceType(<<>>), 0)

UserMapperDirective ==
    Directive("mapper", {<<"impl", "userMapper">>, <<"target", "user_mapper.go">>}, UserMapperSpec)

AddressDtoMapperDirective ==
    Directive("mapper", {<<"impl", "addressDtoMapper">>, <<"target", "address_dto_mapper.go">>},
              AddressDtoMapperSpec)

DefaultMapperDirective ==
    Directive("mapper", {<<"impl", "defaultMapper">>, <<"target", "default_mapper_impl.go">>},
              DefaultMapperSpec)

\* a mapper directive above a function declaration
FuncMapperDirective == Directive("mapper", {}, FuncDecl("TimeToUnix", 0))

MapperDirectiveChoices ==
    { UserMapperDirective,
      Directive("mapper", {<<"impl", "userMapper">>}, UserMapper2Spec),
      DefaultMapperDirective }

MappingUserName == {<<"from", "UserName">>, <<"to", "Name">>}

MappingCreatedAt == {<<"from", "CreatedAt">>, <<"to", "CreatedAt">>, <<"using", "TimeToUnix">>}

IgnorePasswordHash == {<<"ignore", "PasswordHash">>}

MappingMetadataChoices ==
    { MappingUserName,
      MappingCreatedAt,
      IgnorePasswordHash,
      {<<"from", "FirstName">>, <<"to", "Name">>} }

\* the mapper directive lists of the scenarios beyond the choices above
MapperDirectiveLists ==
    { << Directive("mapper", {<<"impl", "legacyMapper">>}, LegacyMapperSpec),
         DefaultMapperDirective >>,
      <<FuncMapperDirective>>,
      <<FuncMapperDirective, UserMapperDirective>>,
      <<DefaultMapperDirective, FuncMapperDirective>>,
      <<UserMapperDirective, AddressDtoMapperDirective>>,
      <<AddressDtoMapperDirective, UserMapperDirective>>,
      << Directive("mapper", {<<"impl", "batchMapper">>}, BatchMapperSpec) >>,
      << Directive("mapper", {<<"impl", "markerMapper">>}, MarkerSpec), UserMapperDirective >>,
      << Directive("mapper", {}, UserStructSpec), UserMapperDirective >>,
      << Directive("mapper", {<<"target", "default_mapper_impl.go">>}, DefaultMapperSpec),
         Directive("mapper", {<<"impl", "">>}, UserMapper2Spec) >> }

\* mapping directives that name their mapper or method
MappingLists ==
    { << {<<"from", "UserName">>, <<"to", "Name">>,
          <<"mapper", "addressDtoMapper">>, <<"method", "ToDTO">>} >>,
      << {<<"from", "UserName">>, <<"to", "Name">>,
          <<"mapper", "DEFAULTMAPPER">>, <<"method", "totarget">>} >>,
      << {<<"from", "UserName">>, <<"to", "Name">>, <<"method", "ToTarget">>} >>,
      << {<<"from", "UserName">>, <<"to", "Name">>, <<"mapper", "addressDtoMapper">>} >>,
      << {<<"from", "UserName">>, <<"to", "Name">>, <<"mapper", "orderMapper">>} >>,
      << {<<"from", "CreatedAt">>, <<"to", "CreatedAt">>, <<"using", "timeutil.ToUnix">>} >>,
      << {<<"from", "UserName">>, <<"to", "Name">>, <<"mapper", "addressDtoMapper">>,
          <<"method", "ToTarget">>},
         MappingCreatedAt >>,
      << {<<"from", "Phone">>, <<"to", "Name">>} >>,
      << {} >>,
      << MappingUserName, {} >>,
      << {<<"ignore", "Name">>} >>,
      << MappingUserName, {<<"ignore", "Name">>} >>,
      << {<<"ignore", "Name">>}, MappingUserName >>,
      << {<<"ignore", "PasswordHash">>, <<"using", "TimeToUnix">>} >>,
      << MappingUserName, {<<"ignore", "PasswordHash">>, <<"using", "TimeToUnix">>} >> }

\* the three directives of Scenario A, in source order
ScenarioA == <<MappingUserName, MappingCreatedAt, IgnorePasswordHash>>

\* mapping directives, associated with the declaration that follows the contract
MappingDirectives(metadatas) ==
    [i \in 1..Len(metadatas) |-> Directive("mapping", metadatas[i], UserStructSpec)]

ValidatorDirectiveChoices ==
    { <<>>, << Directive("validator", {}, UserStructSpec) >> }

EmptyFile == [Decls |-> <<>>, Comments |-> <<>>]

\* the resolution stage on a directive list: main from the grouping on
Init ==
    /\ file = EmptyFile
    /\ ci = 1
    /\ \E ms \in BoundedSeq(MapperDirectiveChoices, MaxMappers) \cup MapperDirectiveLists,
          gs \in BoundedSeq(MappingMetadataChoices, MaxMappings)
                    \cup {ScenarioA} \cup MappingLists,
          vs \in ValidatorDirectiveChoices :
          directives = ms \o MappingDirectives(gs) \o vs
    /\ pc = "group"
    /\ mapperDirectives = <<>>
    /\ mappingDirectives = <<>>
    /\ validatorDirectives = <<>>
    /\ idx = 1
    /\ mapperDefinitions = <<>>
    /\ errors = <<>>
    /\ generated = <<>>

Next ==
    \/ Group
    \/ ProcessMapperDirective
    \/ ProcessMappingDirective
    \/ ProcessValidatorDirective
    \/ GenerateMapper

Spec == Init /\ [][Next]_vars

-----------------------------------------------------------------------------
(* Source files *)

(* A source file is laid out as a sequence of top-level items, each a comment  *)
(* or a declaration; the body of an interface is a sequence of comments and    *)
(* methods.  Positions follow the layout: the i-th top-level item starts at    *)
(* i * PosStride, its type specification one later, the j-th item of its body   *)
(* j later still.                                                              *)

MaxItems == 3

Marker(kind, attributes) == [Kind |-> kind, Attributes |-> attributes]

CommentItem(markers) == [item |-> "comment", Markers |-> markers]

MethodItem(name, param, result) ==
    [item |-> "method", Name |-> name, Param |-> param, Result |-> result]

InterfaceItem(name, body) == [item |-> "interface", Name |-> name, Body |-> body]

\* example/mapper/user_mapper.go, lines 6-14
UserMapperBody ==
    << CommentItem(<<Marker("mapping", MappingUserName)>>),
       CommentItem(<<Marker("mapping", MappingCreatedAt)>>),
       CommentItem(<<Marker("mapping", IgnorePasswordHash)>>),
       MethodItem("ToDTO", Ptr("User"), Ptr("UserDTO")),
       CommentItem(<<Marker("mapping", {<<"from", "Name">>, <<"to", "UserName">>})>>),
       MethodItem("FromDTO", Ptr("UserDTO"), Ptr("User")) >>

\* test/testdata/default_mapper.go, lines 24-27
DefaultMapperBody ==
    << CommentItem(<<>>),
       MethodItem("ToTarget", Ptr("SimpleSource"), Ptr("SimpleTarget")) >>

PosStride == Len(UserMapperBody) + 2

DeclItems ==
    { InterfaceItem("UserMapper", UserMapperBody),
      InterfaceItem("DefaultMapper", DefaultMapperBody),
      [item |-> "types"],
      [item |-> "func"],
      [item |-> "var"] }

CommentItems ==
    { CommentItem(<<Marker("mapper", {<<"impl", "userMapper">>})>>),
      CommentItem(<<Marker("mapping", MappingUserName)>>),
      CommentItem(<<Marker("validator", {}), Marker("mapper", {<<"impl", "defaultMapper">>})>>),
      CommentItem(<<Marker("converter", {})>>),
      CommentItem(<<>>) }

\* the layouts: no declaration occurs twice in a file
Layouts ==
    {l \in BoundedSeq(DeclItems \cup CommentItems, MaxItems) :
        \A i, j \in 1..Len(l) : (i # j /\ l[i] \in DeclItems) => l[i] # l[j]}

\* the methods of an interface body, with their positions
RECURSIVE BodyMethods(_, _, _)
BodyMethods(body, base, j) ==
    IF j > Len(body)
    THEN <<>>
    ELSE (IF body[j].item = "method"
          THEN << Field(<<body[j].Name>>, FuncType(<<body[j].Param>>, <<body[j].Result>>),
                        base + j) >>
          ELSE <<>>)
         \o BodyMethods(body, base, j + 1)

\* the comments of an interface body, with their positions
RECURSIVE BodyComments(_, _, _)
BodyComments(body, base, j) ==
    IF j > Len(body)
    THEN <<>>
    ELSE (IF body[j].item = "comment"
          THEN << [Pos |-> base + j, Markers |-> body[j].Markers] >>
          ELSE <<>>)
         \o BodyComments(body, base, j + 1)

\* the declaration a top-level item stands for, at position pos
ItemDecl(it, pos) ==
    CASE it.item = "interface" ->
            GenDecl("type",
                    << TypeSpec(it.Name, InterfaceType(BodyMethods(it.Body, pos + 1, 1)),
                                pos + 1) >>,
                    pos)
      [] it.item = "types" ->
            GenDecl("type",
                    << TypeSpec("User", StructType(<< Field(<<"Name">>, Ident("string"), pos + 2) >>),
                                pos + 1),
                       TypeSpec("UserDTO", StructType(<< Field(<<"UserName">>, Ident("string"), pos + 4) >>),
                                pos + 3) >>,
                    pos)
      [] it.item = "func" -> FuncDecl("TimeToUnix", pos)
      [] it.item = "var" -> GenDecl("var", << [k |-> "ValueSpec", Pos |-> pos + 1] >>, pos)

RECURSIVE LayoutDecls(_, _)
LayoutDecls(l, i) ==
    IF i > Len(l)
    THEN <<>>
    ELSE (IF l[i].item = "comment" THEN <<>> ELSE << ItemDecl(l[i], i * PosStride) >>)
         \o LayoutDecls(l, i + 1)

RECURSIVE LayoutComments(_, _)
LayoutComments(l, i) ==
    IF i > Len(l)
    THEN <<>>
    ELSE (CASE l[i].item = "comment" -> << [Pos |-> i * PosStride, Markers |-> l[i].Markers] >>
            [] l[i].item = "interface" -> BodyComments(l[i].Body, i * PosStride + 1, 1)
            [] OTHER -> <<>>)
         \o LayoutComments(l, i + 1)

SourceFile(l) == [Decls |-> LayoutDecls(l, 1), Comments |-> LayoutComments(l, 1)]

\* the whole run on a source file: Preprocessor.Process, then main
InitFile ==
    /\ \E l \in Layouts : file = SourceFile(l)
    /\ ci = 1
    /\ directives = <<>>
    /\ pc = IF Len(file.Comments) > 0 THEN "preprocess" ELSE "group"
    /\ mapperDirectives = <<>>
    /\ mappingDirectives = <<>>
    /\ validatorDirectives = <<>>
    /\ idx = 1
    /\ mapperDefinitions = <<>>
    /\ errors = <<>>
    /\ generated = <<>>

\* every directive the preprocessor returns has type mapper, so the loops over
\* the mapping and the validator directives have no iteration in these runs
NextFile ==
    \/ PreprocessComment
    \/ Group
    \/ ProcessMapperDirective
    \/ GenerateMapper

SpecFile == InitFile /\ [][NextFile]_vars

-----------------------------------------------------------------------------
(* Properties of the resolution stage *)

Done == pc = "done"

\* the rule a mapping directive's attributes describe
DirectiveRule(d) ==
    [From |-> Get(d.Metadata, "from"), To |-> Get(d.Metadata, "to"),
     Using |-> Get(d.Metadata, "using"), Ignore |-> Has(d.Metadata, "ignore")]

\* the method the a-th mapping directive is bound to
BoundTo(a) == BindTarget(mapperDefinitions, MappingProcessorProcess(mappingDirectives[a]).val)

MethodIds == {<<m, j>> : m \in 1..MaxMappers + 1, j \in 1..2}

HasMethod(id) ==
    id[1] <= Len(mapperDefinitions) /\ id[2] <= Len(mapperDefinitions[id[1]].Methods)

FinalRules(id) == mapperDefinitions[id[1]].Methods[id[2]].Mappings

NonIgnored(rules, f) == {r \in 1..Len(rules) : ~rules[r].Ignore /\ rules[r].To = f}

\* the non-ignore mapping directives bound to a method that target field f
Targeting(id, f) ==
    {a \in 1..Len(mappingDirectives) :
        /\ BoundTo(a) = id
        /\ ~Has(mappingDirectives[a].Metadata, "ignore")
        /\ Get(mappingDirectives[a].Metadata, "to") = f}

FieldNames == {"Name", "CreatedAt", "PasswordHash", "UserName", "FirstName"}

\* C1: last-wins conflict.  When two or more non-ignore mapping directives bound
\* to a method target the same field f, the method's final rule list holds exactly
\* one non-ignored rule for f, and it carries the from and using attributes of
\* the last of them.
C1_LastWins ==
    Done =>
        \A id \in MethodIds, f \in FieldNames :
            (HasMethod(id) /\ Cardinality(Targeting(id, f)) >= 2) =>
                LET last == CHOOSE b \in Targeting(id, f) : \A a \in Targeting(id, f) : a <= b
                    hits == NonIgnored(FinalRules(id), f)
                IN  /\ Cardinality(hits) = 1
                    /\ \A r \in hits :
                          /\ FinalRules(id)[r].From = Get(mappingDirectives[last].Metadata, "from")
                          /\ FinalRules(id)[r].Using = Get(mappingDirectives[last].Metadata, "using")

\* C2: in every mapper definition handed to the generator, no method has two
\* rules with Ignore = false and the same non-empty To field.
C2_NoDuplicateTo ==
    \A k \in 1..Len(generated) :
        \A j \in 1..Len(generated[k].def.Methods) :
            LET rules == generated[k].def.Methods[j].Mappings
            IN  \A r1, r2 \in 1..Len(rules) :
                    (r1 # r2 /\ ~rules[r1].Ignore /\ ~rules[r2].Ignore /\ rules[r1].To # "")
                        => rules[r1].To # rules[r2].To

\* C3: ignore dominance.  If a mapping directive bound to a method is ignore:f,
\* the method's final rule list has no non-ignored rule whose From or To is f,
\* whatever the order of the directives.
C3_IgnoreDominance ==
    Done =>
        \A id \in MethodIds :
            HasMethod(id) =>
                \A a \in 1..Len(mappingDirectives) :
                    (BoundTo(a) = id /\ Has(mappingDirectives[a].Metadata, "ignore")) =>
                        LET f == Get(mappingDirectives[a].Metadata, "ignore")
                        IN  \A r \in 1..Len(FinalRules(id)) :
                                FinalRules(id)[r].Ignore
                                \/ (FinalRules(id)[r].From # f /\ FinalRules(id)[r].To # f)

\* C4: no rule of the final mapping specification has Ignore = true together
\* with a Using function, and a mapping directive that carries both an ignore
\* and a using attribute is reported as an error.
C4_NoIgnoreWithUsing ==
    Done =>
        /\ \A id \in MethodIds :
              HasMethod(id) =>
                  \A r \in 1..Len(FinalRules(id)) :
                      ~(FinalRules(id)[r].Ignore /\ FinalRules(id)[r].Using # "")
        /\ \A a \in 1..Len(mappingDirectives) :
              (Has(mappingDirectives[a].Metadata, "ignore")
               /\ Has(mappingDirectives[a].Metadata, "using"))
                  => \E e \in 1..Len(errors) : errors[e] = [loop |-> "mapping", i |-> a]

\* C5: Scenario A.  One contract with one method and the three directives
\* from:UserName to:Name, from:CreatedAt to:CreatedAt using:TimeToUnix and
\* ignore:PasswordHash resolve to exactly the two rules UserName->Name and
\* CreatedAt->CreatedAt using TimeToUnix, in that order.
C5_ScenarioA ==
    (/\ Done
     /\ Len(mapperDirectives) = 1
     /\ mapperDirectives[1].Node = UserMapperSpec
     /\ mappingDirectives = MappingDirectives(ScenarioA))
        => /\ Len(mapperDefinitions) = 1
           /\ Len(mapperDefinitions[1].Methods) = 1
           /\ FinalRules(<<1, 1>>) =
                  << [From |-> "UserName", To |-> "Name", Using |-> "", Ignore |-> FALSE],
                     [From |-> "CreatedAt", To |-> "CreatedAt", Using |-> "TimeToUnix",
                      Ignore |-> FALSE] >>

\* the mapper directives that yield a definition, in order: generated[k] is built from the k-th
BuiltFrom == SelectSeq(mapperDirectives, LAMBDA d : d.Node.k = "TypeSpec")

\* the mapping directives bound to a method, in source order
BoundDirectives(id) ==
    SelectSeq(mappingDirectives,
              LAMBDA d : BindTarget(mapperDefinitions, MappingProcessorProcess(d).val) = id)

\* the source fields whose name equals the target field's, letter case apart
NameMatches(sourceFields, t) ==
    {i \in 1..Len(sourceFields) : ToLower(sourceFields[i]) = ToLower(t)}

\* the methods a contract declares, in declaration order (embedded interfaces are not methods)
DeclaredMethods(typeSpec) ==
    IF typeSpec.Type.k = "InterfaceType"
    THEN SelectSeq(typeSpec.Type.Methods, LAMBDA m : m.Type.k = "FuncType")
    ELSE <<>>

\* the declared method a generated method comes from
Declared(k, j) ==
    LET ms == DeclaredMethods(BuiltFrom[k].Node)
    IN  IF j <= Len(ms) THEN ms[j].Type ELSE FuncType(<<>>, <<>>)

\* the field list of the first of the declared types, unknown when there is none
DeclaredFields(types) ==
    IF Len(types) > 0 THEN TypeFields(exprToString(types[1])) ELSE TypeFields(<<>>)

-----------------------------------------------------------------------------
(* Properties of the symbolic binding: one iteration of the mapping loop *)

\* the mapping loop is about to process mappingDirectives[idx]
MappingStep == pc = "mappings" /\ idx <= Len(mappingDirectives)

\* an attribute of the directive being processed, "" when it is absent
CurrentAttr(key) == Get(mappingDirectives[idx].Metadata, key)

\* the step appends the rule of the directive being processed to method id, and
\* changes no other method
AppendedTo(id) ==
    mapperDefinitions' =
        [mapperDefinitions EXCEPT
            ![id[1]].Methods[id[2]].Mappings = Append(@, DirectiveRule(mappingDirectives[idx]))]

\* the mappers named M, and the methods named N, letter case apart
MappersNamed(M) ==
    {m \in 1..Len(mapperDefinitions) : EqualFold(mapperDefinitions[m].ImplName, M)}

MethodsNamed(N) ==
    {id \in MethodIds :
        HasMethod(id) /\ EqualFold(mapperDefinitions[id[1]].Methods[id[2]].Name, N)}

\* the first of a set of methods, mappers and methods taken in declaration order
FirstOf(ids) ==
    CHOOSE id \in ids :
        \A o \in ids : id[1] < o[1] \/ (id[1] = o[1] /\ id[2] <= o[2])

\* C11: symbolic binding by mapper and method name.  When the mapping directive
\* being processed carries mapper:M and method:N, and a mapper definition named M
\* (letter case apart) has a method named N (letter case apart), the step appends
\* the directive's rule to that method of that mapper and changes no other method.
C11_BindByMapperAndMethod ==
    [][ (/\ MappingStep
         /\ CurrentAttr("mapper") # ""
         /\ CurrentAttr("method") # ""
         /\ \E id \in MethodsNamed(CurrentAttr("method")) :
                id[1] \in MappersNamed(CurrentAttr("mapper")))
        => \E id \in MethodsNamed(CurrentAttr("method")) :
                /\ id[1] \in MappersNamed(CurrentAttr("mapper"))
                /\ AppendedTo(id) ]_vars

\* C12: symbolic binding by method name only.  When the mapping directive being
\* processed carries no mapper name and method:N, and some method is named N
\* (letter case apart), the step appends the directive's rule to the first such
\* method, mappers scanned in declaration order and methods in declaration order
\* within each mapper, and changes no other method.
C12_BindByMethodOnly ==
    [][ (/\ MappingStep
         /\ CurrentAttr("mapper") = ""
         /\ CurrentAttr("method") # ""
         /\ MethodsNamed(CurrentAttr("method")) # {})
        => AppendedTo(FirstOf(MethodsNamed(CurrentAttr("method")))) ]_vars

\* neither the mapper attribute nor the method attribute of the directive being
\* processed names anything (an absent attribute names nothing)
Unresolved ==
    /\ MappersNamed(CurrentAttr("mapper")) = {}
    /\ MethodsNamed(CurrentAttr("method")) = {}

C14_ScenarioC ==
    [][ (/\ MappingStep
         /\ Len(mapperDefinitions) = 2
         /\ CurrentAttr("mapper") = "addressDtoMapper"
         /\ CurrentAttr("method") = "")
        => \A m \in MappersNamed("addressDtoMapper") :
                Len(mapperDefinitions[m].Methods) = 1 => AppendedTo(<<m, 1>>) ]_vars

\* C15: unbound directive.  When the mapping directive being processed can be
\* bound to nothing (no mapper definition has a method), the step leaves every
\* method's rule list as it was, records a warning for the directive, and the run
\* goes on.
C15_UnboundWarned ==
    [][ (MappingStep /\ \A id \in MethodIds : ~HasMethod(id))
        => /\ UNCHANGED mapperDefinitions
           /\ Len(errors') = Len(errors) + 1
           /\ pc' \in {"mappings", "validators", "generate", "done"} ]_vars

\* the mapping directives among the first n that are bound to a method, in source order
BoundAmong(id, n) ==
    SelectSeq(SubSeq(mappingDirectives, 1, n),
              LAMBDA d : BindTarget(mapperDefinitions, MappingProcessorProcess(d).val) = id)

\* the number of mapping directives processed so far
Processed ==
    CASE pc = "mappings" -> idx - 1
      [] pc \in {"group", "mappers"} -> 0
      [] OTHER -> Len(mappingDirectives)

\* C24: source order is preserved.  At every point of a run the rule list of
\* every method holds the rules of the mapping directives processed so far that
\* are bound to it, in the order of the directives: the rule of an earlier
\* directive stands before the rule of a later one.
C24_SourceOrder ==
    \A id \in MethodIds :
        HasMethod(id) =>
            LET bound == BoundAmong(id, Processed)
            IN  FinalRules(id) = [a \in 1..Len(bound) |-> DirectiveRule(bound[a])]

\* two directives with different rules were bound to one method
C24_Witness ==
    /\ Done
    /\ HasMethod(<<1, 1>>)
    /\ Len(mappingDirectives) >= 2
    /\ Len(FinalRules(<<1, 1>>)) >= 2
    /\ FinalRules(<<1, 1>>)[1] # FinalRules(<<1, 1>>)[2]
    /\ FinalRules(<<1, 1>>)[1] = DirectiveRule(mappingDirectives[1])

\* C25: an attribute-less mapping directive is a no-op.  Processing a mapping
\* directive without attributes reports no error and leaves every method's rule
\* list as it was.
C25_AttributeLessNoOp ==
    [][ (MappingStep /\ mappingDirectives[idx].Metadata = {})
        => UNCHANGED <<mapperDefinitions, errors>> ]_vars

\* the from attribute of the directive being processed is not a field of the
\* known field list of the source type of the method it is bound to
FromUnresolved ==
    LET id == BoundTo(idx)
        src == TypeFields(mapperDefinitions[id[1]].Methods[id[2]].SourceType)
    IN  /\ id # <<0, 0>>
        /\ CurrentAttr("from") # ""
        /\ src.known
        /\ \A f \in 1..Len(src.fields) : src.fields[f] # CurrentAttr("from")

\* C26: Scenario D.  When the from field of the mapping directive being processed
\* is not in the known field list of the source type, the step appends the
\* directive's rule to the bound method, records an unresolved-field warning, and
\* the run goes on.
C26_ScenarioD ==
    [][ (MappingStep /\ FromUnresolved)
        => /\ AppendedTo(BoundTo(idx))
           /\ Len(errors') = Len(errors) + 1
           /\ pc' \in {"mappings", "validators", "generate", "done"} ]_vars

\* the mappers named M that have a method
MappersWithMethods(M) == {m \in MappersNamed(M) : Len(mapperDefinitions[m].Methods) > 0}

\* C28: binding by mapper name without a matching method.  When the mapping
\* directive being processed names a mapper, the first mapper in declaration
\* order that has that name (letter case apart) and at least one method does not
\* have a method of the directive's method name, or the directive has none, the
\* step appends the rule to the first method of that mapper and changes no other
\* method, also when another mapper has a method of that name.
C28_FirstMethodOfNamedMapper ==
    [][ (/\ MappingStep
         /\ MappersWithMethods(CurrentAttr("mapper")) # {})
        => LET m == CHOOSE m \in MappersWithMethods(CurrentAttr("mapper")) :
                        \A o \in MappersWithMethods(CurrentAttr("mapper")) : m <= o
           IN  (\A id \in MethodsNamed(CurrentAttr("method")) : id[1] # m)
                   => AppendedTo(<<m, 1>>) ]_vars

\* the number of rules of all methods of a list of mapper definitions
RECURSIVE RuleCount(_, _, _)
RuleCount(defs, m, j) ==
    IF m > Len(defs) THEN 0
    ELSE IF j > Len(defs[m].Methods) THEN RuleCount(defs, m + 1, 1)
    ELSE Len(defs[m].Methods[j].Mappings) + RuleCount(defs, m, j + 1)

\* a mapper definition without the rules of its methods
Skeleton(def) ==
    [def EXCEPT !.Methods = [j \in 1..Len(def.Methods) |-> [def.Methods[j] EXCEPT !.Mappings = <<>>]]]

\* C29: frame of the mapping loop.  Processing one mapping directive appends
\* exactly one rule to exactly one method when the first mapper has a method, and
\* at most one rule in every case; the mappers, their ImplName, Package,
\* TargetFile and Imports, and the names and types of their methods stay as they
\* are and in their order, and the rules a method had stay at the head of its
\* rule list; so the total number of rules is at most the number of directives
\* processed.
C29_MappingFrame ==
    [][ MappingStep
        => /\ Len(mapperDefinitions') = Len(mapperDefinitions)
           /\ \A m \in 1..Len(mapperDefinitions) :
                 /\ Skeleton(mapperDefinitions'[m]) = Skeleton(mapperDefinitions[m])
                 /\ \A j \in 1..Len(mapperDefinitions[m].Methods) :
                       SubSeq(mapperDefinitions'[m].Methods[j].Mappings, 1,
                              Len(mapperDefinitions[m].Methods[j].Mappings))
                           = mapperDefinitions[m].Methods[j].Mappings
           /\ RuleCount(mapperDefinitions', 1, 1) \in
                 {RuleCount(mapperDefinitions, 1, 1), RuleCount(mapperDefinitions, 1, 1) + 1}
           /\ HasMethod(<<1, 1>>) =>
                 RuleCount(mapperDefinitions', 1, 1) = RuleCount(mapperDefinitions, 1, 1) + 1
           /\ RuleCount(mapperDefinitions', 1, 1) <= idx ]_vars

\* two mapping directives were processed with two mappers present, one of them
\* with a rule list that was not empty before the second
C29_Witness ==
    /\ Done
    /\ Len(mapperDefinitions) = 2
    /\ Len(mappingDirectives) = 2
    /\ RuleCount(mapperDefinitions, 1, 1) = 2
    /\ Len(mapperDefinitions[1].Imports) + Len(mapperDefinitions[2].Imports) > 0

-----------------------------------------------------------------------------
(* Properties of the contract builder *)

\* the k-th mapper definition and the directive it was built from
BuiltType(k) == BuiltFrom[k].Node

\* the text of the first of the declared types, the empty string when there is none
FirstTypeText(types) == IF Len(types) > 0 THEN exprToString(types[1]) ELSE <<>>

\* C16: contract builder.  The mapper definition built from a mapper directive
\* bound to a contract has exactly one method per declared method of the contract,
\* in declaration order, each with the declared name, SourceType the text of the
\* method's first parameter type and TargetType the text of its first result type,
\* the empty string when the method has no parameter or no result; and no error is
\* reported for a mapper directive bound to a contract.
C16_ContractBuilder ==
    /\ \A k \in 1..Len(mapperDefinitions) :
          BuiltType(k).Type.k = "InterfaceType" =>
              LET declared == DeclaredMethods(BuiltType(k))
                  methods == mapperDefinitions[k].Methods
              IN  /\ Len(methods) = Len(declared)
                  /\ \A j \in 1..Len(declared) :
                        /\ methods[j].Name = declared[j].Names[1]
                        /\ methods[j].SourceType = FirstTypeText(declared[j].Type.Params)
                        /\ methods[j].TargetType = FirstTypeText(declared[j].Type.Results)
    /\ \A e \in 1..Len(errors) :
          errors[e].loop = "mapper" =>
              ~(/\ mapperDirectives[errors[e].i].Node.k = "TypeSpec"
                /\ mapperDirectives[errors[e].i].Node.Type.k = "InterfaceType")

\* a contract with an embedded interface, a method without parameter and result
\* and a method with two parameters and two results was built
C16_Witness ==
    \E k \in 1..Len(mapperDefinitions) :
        /\ BuiltType(k) = BatchMapperSpec
        /\ Len(BatchMapperSpec.Type.Methods) = 3
        /\ mapperDefinitions[k].Methods =
              << [Name |-> "Reset", SourceType |-> <<>>, TargetType |-> <<>>, Mappings |-> <<>>],
                 [Name |-> "ToDTOs", SourceType |-> <<"[]", "dto", ".", "User">>,
                  TargetType |-> <<"map[", "string", "]", "dto", ".", "UserDTO">>,
                  Mappings |-> <<>>] >>

\* the contract names of the model in lower case
LowerCased(name) ==
    CASE name = "UserMapper" -> "usermapper"
      [] name = "DefaultMapper" -> "defaultmapper"
      [] name = "LegacyMapper" -> "legacymapper"
      [] name = "AddressDtoMapper" -> "addressdtomapper"
      [] name = "BatchMapper" -> "batchmapper"
      [] name = "Marker" -> "marker"
      [] name = "User" -> "user"

\* C17: implementation name.  ImplName of a mapper definition is the impl
\* attribute of its directive when that attribute is present and not empty, and
\* else the contract name in lower case followed by _mapper; TargetFile is the
\* target attribute.
C17_ImplName ==
    \A k \in 1..Len(mapperDefinitions) :
        LET md == BuiltFrom[k].Metadata
            given == \E p \in md : p[1] = "impl" /\ p[2] # ""
        IN  /\ given => \E p \in md : p[1] = "impl" /\ mapperDefinitions[k].ImplName = p[2]
            /\ ~given => mapperDefinitions[k].ImplName = LowerCased(BuiltType(k).Name) \o "_mapper"
            /\ \A p \in md : p[1] = "target" => mapperDefinitions[k].TargetFile = p[2]

\* definitions were built from a directive without impl attribute, from one with
\* an empty impl attribute, and from one with impl and target
C17_Witness ==
    /\ Done
    /\ \E k \in 1..Len(mapperDefinitions) :
          /\ ~Has(BuiltFrom[k].Metadata, "impl")
          /\ mapperDefinitions[k].ImplName = "defaultmapper_mapper"
          /\ mapperDefinitions[k].TargetFile = "default_mapper_impl.go"
    /\ \E k \in 1..Len(mapperDefinitions) :
          /\ <<"impl", "">> \in BuiltFrom[k].Metadata
          /\ mapperDefinitions[k].ImplName = "usermapper_mapper"

\* the package qualifiers that occur in a type string: the identifiers before a dot
TypeQualifiers(typeStr) ==
    {<<typeStr[i]>> : i \in {h \in 1..Len(typeStr) - 1 : typeStr[h + 1] = "."}}

\* the package qualifier of a Using function
UsingQualifiers(using) ==
    IF using = "timeutil.ToUnix" THEN {<<"timeutil">>} ELSE {}

\* the package qualifiers a mapper definition refers to
Referenced(mapperDef) ==
    UNION {TypeQualifiers(mapperDef.Methods[j].SourceType)
              \cup TypeQualifiers(mapperDef.Methods[j].TargetType)
              \cup UNION {UsingQualifiers(mapperDef.Methods[j].Mappings[r].Using) :
                             r \in 1..Len(mapperDef.Methods[j].Mappings)} :
           j \in 1..Len(mapperDef.Methods)}

\* C18: imports.  At the end of the run the Imports of every mapper definition
\* hold no entry twice and are exactly the package qualifiers that occur in the
\* SourceType or TargetType of its methods (pointers, slices and maps of qualified
\* types included) or in the Using function of its rules.
C18_Imports ==
    Done =>
        \A k \in 1..Len(mapperDefinitions) :
            LET imports == mapperDefinitions[k].Imports
            IN  /\ \A a, b \in 1..Len(imports) : a # b => imports[a] # imports[b]
                /\ {imports[a] : a \in 1..Len(imports)} = Referenced(mapperDefinitions[k])

\* C19: no two mapper definitions of a run have the same ImplName.
C19_UniqueImplName ==
    \A a, b \in 1..Len(mapperDefinitions) :
        a # b => mapperDefinitions[a].ImplName # mapperDefinitions[b].ImplName

\* a mapper directive bound to a conversion-method container: an interface type
ValidContainer(d) == d.Node.k = "TypeSpec" /\ d.Node.Type.k = "InterfaceType"

\* C20: structural failure is isolated.  Once the mapper loop is over, the mapper
\* definitions are those of the mapper directives bound to a conversion-method
\* container, in directive order, an error is reported for every other mapper
\* directive and for no valid one, and at the end of the run every definition was
\* handed to the generator.
C20_StructuralFailureIsolated ==
    pc \in {"mappings", "validators", "generate", "done"} =>
        LET valid == SelectSeq(mapperDirectives, ValidContainer)
        IN  /\ Len(mapperDefinitions) = Len(valid)
            /\ \A k \in 1..Len(valid) :
                  /\ mapperDefinitions[k].ImplName = MapperProcessorProcess(valid[k]).val.ImplName
                  /\ Len(mapperDefinitions[k].Methods) = Len(DeclaredMethods(valid[k].Node))
            /\ \A i \in 1..Len(mapperDirectives) :
                  ~ValidContainer(mapperDirectives[i]) <=>
                      \E e \in 1..Len(errors) : errors[e] = [loop |-> "mapper", i |-> i]
            /\ Done => Len(generated) = Len(valid)

-----------------------------------------------------------------------------
(* Properties of the resolution as a whole *)

\* the mapper definitions a list of mapper directives determines
RECURSIVE BuiltDefinitions(_, _)
BuiltDefinitions(ds, i) ==
    IF i > Len(ds)
    THEN <<>>
    ELSE LET result == RegistryProcess(ds[i])
         IN  (IF result.err THEN <<>> ELSE <<result.val>>) \o BuiltDefinitions(ds, i + 1)

\* the mapper definitions after the mapping directives from the i-th on
RECURSIVE BoundDefinitions(_, _, _)
BoundDefinitions(defs, ds, i) ==
    IF i > Len(ds)
    THEN defs
    ELSE LET result == RegistryProcess(ds[i])
         IN  BoundDefinitions(IF result.err
                              THEN defs
                              ELSE AppendMapping(defs, BindTarget(defs, result.val),
                                                 FieldMappingRule(result.val)),
                              ds, i + 1)

\* the Mapping Specification an ordered directive list determines
Resolved(ds) ==
    BoundDefinitions(BuiltDefinitions(OfType(ds, "mapper"), 1), OfType(ds, "mapping"), 1)

\* C21: determinism.  The Mapping Specification a run ends with is a function of
\* the ordered directive list and its declarations: every run on the same list
\* ends with the same mappers in the same order, the same methods in the same
\* order and the same rule lists in the same order, and the same is handed to
\* the generator.
C21_Deterministic ==
    Done =>
        /\ mapperDefinitions = Resolved(directives)
        /\ generated = [k \in 1..Len(Resolved(directives)) |-> Generate(Resolved(directives)[k])]

\* a run with two mappers and two mapping directives has ended
C21_Witness ==
    /\ Done
    /\ Len(mapperDefinitions) = 2
    /\ Len(mappingDirectives) = 2
    /\ Len(FinalRules(<<1, 1>>)) = 2
    /\ Len(generated) = 2

-----------------------------------------------------------------------------
(* Properties of the whole run on a source file *)

\* the interface type specifications of the file
Contracts ==
    {ts \in UNION {{file.Decls[h].Specs[q] : q \in 1..Len(file.Decls[h].Specs)} :
                      h \in {g \in 1..Len(file.Decls) : file.Decls[g].k = "GenDecl"}} :
        ts.k = "TypeSpec" /\ ts.Type.k = "InterfaceType"}

\* whether a declaration starts between two positions
DeclBetween(lo, hi) ==
    \E h \in 1..Len(file.Decls) : lo < file.Decls[h].Pos /\ file.Decls[h].Pos < hi

\* a comment with a mapper marker stands immediately above the contract
HasMapperMarker(ts) ==
    \E c \in 1..Len(file.Comments) :
        /\ \E i \in 1..Len(file.Comments[c].Markers) : file.Comments[c].Markers[i].Kind = "mapper"
        /\ file.Comments[c].Pos < ts.Pos
        /\ ~DeclBetween(file.Comments[c].Pos, ts.Pos - 1)

\* the rules of the mapping markers of a sequence of comments, in source order
RECURSIVE MarkerRules(_, _, _)
MarkerRules(comments, c, i) ==
    IF c > Len(comments) THEN <<>>
    ELSE IF i > Len(comments[c].Markers) THEN MarkerRules(comments, c + 1, 1)
    ELSE (IF comments[c].Markers[i].Kind = "mapping"
          THEN << DirectiveRule([Metadata |-> comments[c].Markers[i].Attributes]) >>
          ELSE <<>>)
         \o MarkerRules(comments, c, i + 1)

\* the comments written above the j-th method of a contract, below the method before it
AboveMethod(ts, j) ==
    SelectSeq(file.Comments,
              LAMBDA c : /\ c.Pos < ts.Type.Methods[j].Pos
                         /\ c.Pos > (IF j = 1 THEN ts.Pos ELSE ts.Type.Methods[j - 1].Pos))

\* C8: positional binding.  For every contract with a mapper directive, the run
\* ends with a mapper definition that has the contract's methods, each with
\* exactly the rules of the mapping directives written above that method.
C8_PositionalBinding ==
    Done =>
        \A ts \in Contracts :
            HasMapperMarker(ts) =>
                \E m \in 1..Len(mapperDefinitions) :
                    /\ Len(mapperDefinitions[m].Methods) = Len(ts.Type.Methods)
                    /\ \A j \in 1..Len(ts.Type.Methods) :
                          /\ mapperDefinitions[m].Methods[j].Name = ts.Type.Methods[j].Names[1]
                          /\ mapperDefinitions[m].Methods[j].Mappings =
                                 MarkerRules(AboveMethod(ts, j), 1, 1)

\* the h-th declaration is the node or holds it as a specification
Owns(h, node) ==
    \/ file.Decls[h] = node
    \/ /\ file.Decls[h].k = "GenDecl"
       /\ \E q \in 1..Len(file.Decls[h].Specs) : file.Decls[h].Specs[q] = node

\* C9: every directive the preprocessor adds for a comment is associated with a
\* node that starts strictly after the comment, and the declaration of that node
\* is the nearest one after the comment: no other declaration of the file starts
\* between the comment and it.
C9_NearestFollowing ==
    [][pc = "preprocess" =>
          \A i \in (Len(directives) + 1)..Len(directives') :
              LET node == directives'[i].Node
                  pos == file.Comments[ci].Pos
              IN  /\ node.Pos > pos
                  /\ \E h \in 1..Len(file.Decls) :
                        /\ Owns(h, node)
                        /\ file.Decls[h].Pos > pos
                        /\ ~DeclBetween(pos, file.Decls[h].Pos)]_vars

\* a directive of a comment that follows the first declaration of the file was
\* associated with a later declaration
C9_Witness ==
    /\ pc = "group"
    /\ Len(file.Decls) >= 2
    /\ \E c \in 1..Len(file.Comments) :
          /\ Len(file.Comments[c].Markers) > 0
          /\ file.Decls[1].Pos < file.Comments[c].Pos
          /\ file.Comments[c].Pos < file.Decls[2].Pos
    /\ \E i \in 1..Len(directives) : Owns(2, directives[i].Node)

\* the directives the step adds to the list
Added == SubSeq(directives', Len(directives) + 1, Len(directives'))

\* C22: directive extraction.  Every directive the preprocessor adds for a marker
\* of a recognised kind (mapper, mapping, validator) has the marker's kind as its
\* Type and exactly the marker's key:value pairs as its attributes.
C22_ExtractedAsWritten ==
    [][pc = "preprocess" =>
          LET markers == file.Comments[ci].Markers
          IN  \A i \in 1..Len(Added) :
                  /\ i <= Len(markers)
                  /\ markers[i].Kind \in {"mapper", "mapping", "validator"} =>
                        /\ Added[i].Type = markers[i].Kind
                        /\ Added[i].Metadata = markers[i].Attributes]_vars

\* a declaration follows the comment being processed
DeclFollows == \E h \in 1..Len(file.Decls) : file.Decls[h].Pos > file.Comments[ci].Pos

\* C23: several markers in one comment.  For a comment with n markers that a
\* declaration follows, the preprocessor adds exactly n directives, after those
\* it had, and all n are associated with the same declaration.
C23_OneDirectivePerMarker ==
    [][(pc = "preprocess" /\ DeclFollows) =>
          /\ Len(Added) = Len(file.Comments[ci].Markers)
          /\ SubSeq(directives', 1, Len(directives)) = directives
          /\ \A i, j \in 1..Len(Added) :
                Added[i].Node = Added[j].Node /\ Added[i].Node # Nil]_vars

\* the only comment with markers has two of them, and the two directives of the
\* run are associated with one declaration
C23_Witness ==
    /\ pc = "group"
    /\ \E c \in 1..Len(file.Comments) :
          /\ Len(file.Comments[c].Markers) = 2
          /\ \A o \in 1..Len(file.Comments) : o # c => Len(file.Comments[o].Markers) = 0
    /\ Len(directives) = 2
    /\ directives[1].Node = directives[2].Node
    /\ directives[1].Node.k = "TypeSpec"

\* every marker of the file has a kind that is not mapper, mapping or validator,
\* and there is one
OnlyUnknownKinds ==
    /\ \A c \in 1..Len(file.Comments) :
          \A i \in 1..Len(file.Comments[c].Markers) :
              file.Comments[c].Markers[i].Kind \notin {"mapper", "mapping", "validator"}
    /\ \E c \in 1..Len(file.Comments) : Len(file.Comments[c].Markers) > 0

\* C27: unknown kinds.  A run on a file whose markers all have an unrecognised
\* kind ends, like a run on the file without them, with no mapper definition and
\* nothing handed to the generator, and a warning is recorded for the dropped
\* directives.
C27_UnknownKindDropped ==
    (Done /\ OnlyUnknownKinds) =>
        /\ mapperDefinitions = <<>>
        /\ generated = <<>>
        /\ Len(errors) > 0

\* the markers of the comments that no declaration follows
RECURSIVE TrailingMarkers(_)
TrailingMarkers(c) ==
    IF c > Len(file.Comments) THEN 0
    ELSE (IF \E h \in 1..Len(file.Decls) : file.Decls[h].Pos > file.Comments[c].Pos
          THEN 0
          ELSE Len(file.Comments[c].Markers))
         + TrailingMarkers(c + 1)

RECURSIVE AllMarkers(_)
AllMarkers(c) ==
    IF c > Len(file.Comments) THEN 0
    ELSE Len(file.Comments[c].Markers) + AllMarkers(c + 1)

\* C10: a directive without a following declaration is not lost.  The directive
\* list the preprocessor returns holds one directive per marker of the file, and
\* those of the comments no declaration follows are in it with no node.
C10_UnboundKept ==
    pc # "preprocess" =>
        /\ Len(directives) = AllMarkers(1)
        /\ Len(SelectSeq(directives, LAMBDA d : d.Node = Nil)) = TrailingMarkers(1)

====
